---- MODULE Spec2Model ----
(***************************************************************************)
(* Claude Code Focus Mode: the concurrency-coordination core.              *)
(*   - extension/media-controller.js : the ownership-tracked pause/resume  *)
(*     ledger (pausedByUs, the media watcher);                             *)
(*   - extension/content.js          : FocusStateMachine (latest-wins      *)
(*     queue of transitions, enter effects that suspend on the fade);      *)
(*   - extension/background.js       : serializedBroadcast (single-flight  *)
(*     fan-out) and serializedUpdateAllSites (generation counter).         *)
(* One task of the JavaScript event loop (a handler together with the      *)
(* microtasks it leaves behind) is one action; an await on a timer or on   *)
(* a chrome.* call is a suspension point between two actions.              *)
(***************************************************************************)
EXTENDS Integers, Sequences, FiniteSets, TLC

\* ---------------------------------------------------------------- bounds
NumEls == 2            \* media elements that exist (in or out of the document)
MaxCalls == 4          \* transition() requests issued to the machine
MaxPolls == 1          \* daemon polls in flight at once
NumTabs == 2           \* open tabs
MaxReq == 3            \* status changes, each followed by serializedBroadcast()
MaxGen == 2            \* SETTINGS_CHANGED messages (serializedUpdateAllSites calls)
NumSites == 2          \* entries of settings.sites

Els == 1..NumEls

\* ------------------------------------------------------------- content.js
ACTIVE == "ACTIVE"
INACTIVE == "INACTIVE"
DISABLED == "DISABLED"
State == {ACTIVE, INACTIVE, DISABLED}

\* _pendingTransition = null
NoPending == [state |-> "null", data |-> 0]

VARIABLES
  fsm,      \* FocusStateMachine fields
  media,    \* media-controller.js closure variables
  doc,      \* the host document: media elements and the overlay element
  net,      \* daemon polls in flight (fetch promises not yet settled), and how
            \* many of them were answered before the newest delivered observation
  mh,       \* history of the media ledger (who paused what, last resume)
  fh        \* history of the machine (requests issued, applied, effects)

cvars == <<fsm, media, doc, net, mh, fh>>

\* ---------------------------------------------------------- background.js
VARIABLES
  bg,       \* globals of the service worker: settings, lastStatus, injectedTabs,
            \* broadcastInProgress, broadcastQueued, updateGeneration
  passes,   \* suspended broadcastStatus() calls: [id, pc, idx, branch]
  upds,     \* suspended updateAllSites(gen) calls, by gen: [pc, idx]
  timers,   \* setTimeout(() => serializedBroadcast(), 0) callbacks not yet run
  tabs,     \* what chrome.tabs.query({}) returns: the kind of URL of each tab
  bh        \* history: passes started, payloads sent, sends of stale enumerations

\* one evaluation of urlMatchesEnabledSite(url): the settings it reads, the URL
\* it is given and what it returned ("none" until it has been called)
VARIABLES matcher

bvars == <<bg, passes, upds, timers, tabs, bh, matcher>>

vars == <<fsm, media, doc, net, mh, fh, bg, passes, upds, timers, tabs, bh, matcher>>

\* The content-script world as one value, threaded through the operators
\* below in the order the statements of the code run. Four fields live for one
\* task only: ret, the value the last media API call returned; log, the
\* platform calls the task has made on the watcher's behalf; fail, whether
\* chrome.runtime calls throw in this task (extension context invalidated);
\* thrown, whether the enter handler just run ended in an exception.
World == [fsm |-> fsm, media |-> media, doc |-> doc, net |-> net, mh |-> mh, fh |-> fh,
          ret |-> 0, log |-> <<>>, fail |-> FALSE, thrown |-> FALSE]

SetWorld(W) ==
  /\ fsm' = W.fsm
  /\ media' = W.media
  /\ doc' = W.doc
  /\ net' = W.net
  /\ mh' = W.mh
  /\ fh' = W.fh
  /\ UNCHANGED bvars

\* Evaluate v once, then continue with F on its value: the statements of a
\* handler run one after the other on the state the previous one left.
Then(v, F(_)) == CHOOSE r \in {F(x) : x \in {v}} : TRUE

\* An effect seen out of order during the enter effect of `mode` (history)
Fault(mode, what) == [mode |-> mode, what |-> what]

\* ------------------------------------------------- media-controller.js

\* document.querySelectorAll('video') + ('audio'): the elements in the document
getAllMedia(W) == W.doc.inDoc

\* el.pause(); pausedByUs.add(el) for every e in S
PauseAndOwn(W0, S) ==
  Then(W0, LAMBDA W :
  [W EXCEPT !.doc.paused = [e \in Els |-> W.doc.paused[e] \/ e \in S],
            !.media.pausedByUs = W.media.pausedByUs \cup S,
            !.mh.everOwned = W.mh.everOwned \cup S,
            !.mh.cause = [e \in Els |-> IF e \in S THEN "us" ELSE W.mh.cause[e]]]
  )

\* faulty variant: every element of the document is paused and owned
pauseAllMedia_everyElement(W0) ==
  Then(W0, LAMBDA W :
  [PauseAndOwn(W, getAllMedia(W)) EXCEPT !.ret = Cardinality(getAllMedia(W)),
                                         !.log = Append(@, "pauseAllMedia")]
  )

\* returns pausedCount
pauseAllMedia(W0) ==
  Then(W0, LAMBDA W :
  LET playing == {e \in getAllMedia(W) : ~W.doc.paused[e]}
  IN [PauseAndOwn(W, playing) EXCEPT !.ret = Cardinality(playing),
                                     !.log = Append(@, "pauseAllMedia")]
  )

\* ok: the elements on which play() takes effect (the others are blocked by
\* the autoplay policy: the promise rejects and the element stays paused)
ResumeTargets(W) == {e \in getAllMedia(W) : e \in W.media.pausedByUs /\ W.doc.paused[e]}

\* faulty variant: play() on every paused element, owned or not
resumeOurPausedMedia_noHasCheck(W0, ok) ==
  Then(W0, LAMBDA W :
  LET toPlay == {e \in getAllMedia(W) : W.doc.paused[e]}
  IN [W EXCEPT
        !.doc.paused = [e \in Els |-> IF e \in toPlay THEN FALSE ELSE W.doc.paused[e]],
        !.media.pausedByUs = W.media.pausedByUs \ toPlay,
        !.mh.cause = [e \in Els |-> IF e \in toPlay THEN "none" ELSE W.mh.cause[e]],
        !.mh.lastPlayed = toPlay,
        !.mh.playedForeign = W.mh.playedForeign \/ \E e \in toPlay : W.mh.cause[e] # "us",
        !.mh.resumeTick = 1 - W.mh.resumeTick]
  )

\* faulty variant: play() on every owned element, paused or not
resumeOurPausedMedia_noPausedCheck(W0, ok) ==
  Then(W0, LAMBDA W :
  LET toPlay == {e \in getAllMedia(W) : e \in W.media.pausedByUs}
  IN [W EXCEPT
        !.doc.paused = [e \in Els |-> IF e \in toPlay THEN FALSE ELSE W.doc.paused[e]],
        !.media.pausedByUs = W.media.pausedByUs \ toPlay,
        !.mh.cause = [e \in Els |-> IF e \in toPlay THEN "none" ELSE W.mh.cause[e]],
        !.mh.lastPlayed = toPlay,
        !.mh.playedForeign = W.mh.playedForeign \/ \E e \in toPlay : W.mh.cause[e] # "us",
        !.mh.resumeTick = 1 - W.mh.resumeTick]
  )

\* faulty variant: the element leaves the set only when play() takes effect
resumeOurPausedMedia_deleteOnSuccess(W0, ok) ==
  Then(W0, LAMBDA W :
  LET toPlay == ResumeTargets(W)
  IN [W EXCEPT
        !.doc.paused = [e \in Els |-> IF e \in toPlay /\ e \in ok THEN FALSE ELSE W.doc.paused[e]],
        !.media.pausedByUs = W.media.pausedByUs \ (toPlay \cap ok),
        !.mh.cause = [e \in Els |-> IF e \in toPlay /\ e \in ok THEN "none" ELSE W.mh.cause[e]],
        !.mh.lastPlayed = toPlay,
        !.mh.playedForeign = W.mh.playedForeign \/ \E e \in toPlay : W.mh.cause[e] # "us",
        !.mh.resumeTick = 1 - W.mh.resumeTick]
  )

resumeOurPausedMedia(W0, ok) ==
  Then(W0, LAMBDA W :
  LET toPlay == ResumeTargets(W)
      inEnter == W.fh.running # {}
  IN [W EXCEPT
        !.doc.paused = [e \in Els |-> IF e \in toPlay /\ e \in ok THEN FALSE ELSE W.doc.paused[e]],
        !.media.pausedByUs = W.media.pausedByUs \ toPlay,
        !.mh.cause = [e \in Els |-> IF e \in toPlay /\ e \in ok THEN "none" ELSE W.mh.cause[e]],
        !.mh.lastPlayed = toPlay,
        !.mh.playedForeign = W.mh.playedForeign \/ \E e \in toPlay : W.mh.cause[e] # "us",
        !.mh.resumeTick = 1 - W.mh.resumeTick,
        !.fh.resumedThisEnter = @ \/ inEnter,
        !.fh.faults = @ \cup
            (IF inEnter /\ (W.doc.overlay # "absent" \/ W.doc.fadeTimers # {})
             THEN {Fault(W.fh.lastEnter, "resumeBeforeHidden")} ELSE {}) \cup
            (IF inEnter /\ W.media.mediaWatcherActive
             THEN {Fault(W.fh.lastEnter, "resumeWhileWatching")} ELSE {})]
  )

onMediaElementFound(W0, el) ==
  Then(W0, LAMBDA W :
  IF ~W.media.mediaWatcherActive THEN W
  ELSE IF ~W.doc.paused[el] THEN PauseAndOwn(W, {el})
  ELSE W
  )

fallbackPause(W0) ==
  Then(W0, LAMBDA W :
  IF ~W.media.mediaWatcherActive THEN W
  ELSE PauseAndOwn(W, {e \in getAllMedia(W) : ~W.doc.paused[e] /\ e \notin W.media.pausedByUs})
  )

\* faulty variant: a startMediaWatcher without its `if (mediaWatcherActive) return`
startMediaWatcher_noGuard(W0) ==
  Then(W0, LAMBDA W :
  LET W1 == [W EXCEPT !.media.mediaWatcherActive = TRUE,
                      !.mh.lastWatch = IF W.media.mediaWatcherActive THEN "startAgain" ELSE "start"]
      W2 == pauseAllMedia(W1)
  IN [W2 EXCEPT !.media.observing = TRUE,
                !.media.fallbackInterval = TRUE,
                !.log = @ \o <<"observe">> \o
                        (IF W2.media.fallbackInterval THEN <<>> ELSE <<"setInterval">>)]
  )

\* mh.lastWatch: the last call to the watcher and whether it returned at its guard
startMediaWatcher(W0) ==
  Then(W0, LAMBDA W :
  IF W.media.mediaWatcherActive THEN [W EXCEPT !.mh.lastWatch = "startAgain"]
  ELSE LET W1 == [W EXCEPT !.media.mediaWatcherActive = TRUE, !.mh.lastWatch = "start"]
           W2 == pauseAllMedia(W1)
       IN [W2 EXCEPT !.media.observing = TRUE,
                     !.media.fallbackInterval = TRUE,
                     !.log = @ \o <<"observe">> \o
                             (IF W2.media.fallbackInterval THEN <<>> ELSE <<"setInterval">>)]
  )

\* faulty variant: a stopMediaWatcher that also resumes what is owned
stopMediaWatcher_resumes(W0) ==
  Then(W0, LAMBDA W :
  IF ~W.media.mediaWatcherActive THEN [W EXCEPT !.mh.lastWatch = "stopAgain"]
  ELSE [W EXCEPT !.media.mediaWatcherActive = FALSE,
                 !.media.observing = FALSE,
                 !.media.fallbackInterval = FALSE,
                 !.mh.lastWatch = "stop",
                 !.doc.paused = [e \in Els |-> IF e \in ResumeTargets(W) THEN FALSE ELSE @[e]],
                 !.media.pausedByUs = @ \ ResumeTargets(W),
                 !.log = @ \o <<"disconnect", "clearInterval">>]
  )

\* faulty variant: a stopMediaWatcher that leaves the flag, the observer and the timer
stopMediaWatcher_leavesRunning(W0) ==
  Then(W0, LAMBDA W :
  [W EXCEPT !.mh.lastWatch = IF W.media.mediaWatcherActive THEN "stop" ELSE "stopAgain"]
  )

stopMediaWatcher(W0) ==
  Then(W0, LAMBDA W :
  IF ~W.media.mediaWatcherActive THEN [W EXCEPT !.mh.lastWatch = "stopAgain"]
  ELSE [W EXCEPT !.media.mediaWatcherActive = FALSE,
                 !.media.observing = FALSE,
                 !.media.fallbackInterval = FALSE,
                 !.mh.lastWatch = "stop",
                 !.log = @ \o (IF W.media.observing THEN <<"disconnect">> ELSE <<>>) \o
                         (IF W.media.fallbackInterval THEN <<"clearInterval">> ELSE <<>>)]
  )

\* ------------------------------------------- content.js: FocusStateMachine

\* Bookkeeping of one enter-effect sequence starting / ending for request id
EnterBegins(W0, id, mode) ==
  Then(W0, LAMBDA W :
  [W EXCEPT !.fh.running = W.fh.running \cup {id},
            !.fh.overlap = W.fh.overlap \/ W.fh.running # {},
            !.fh.enterRuns = [W.fh.enterRuns EXCEPT ![id] = IF @ < 2 THEN @ + 1 ELSE 2],
            !.fh.lastEnter = mode,
            !.fh.resumedThisEnter = FALSE]
  )

EnterEnds(W0, id) ==
  Then(W0, LAMBDA W :
  [W EXCEPT !.fh.running = W.fh.running \ {id},
            !.fh.enterDone = W.fh.enterDone \cup {id},
            !.fh.resumedThisEnter = FALSE,
            !.fh.faults = @ \cup
                (IF W.fh.lastEnter # INACTIVE /\ ~W.fh.resumedThisEnter
                 THEN {Fault(W.fh.lastEnter, "noResume")} ELSE {}) \cup
                (IF W.fh.lastEnter = INACTIVE
                    /\ (W.doc.overlay # "shown" \/ W.fsm.state # INACTIVE)
                 THEN {Fault(INACTIVE, "notShown")} ELSE {}) \cup
                (IF W.fh.lastEnter # INACTIVE
                    /\ \E e \in getAllMedia(W) :
                         e \in W.media.pausedByUs /\ W.doc.paused[e]
                 THEN {Fault(W.fh.lastEnter, "ownedStillPaused")} ELSE {})]
  )

\* _createOverlay: returns at once when the element already exists;
\* chrome.runtime.getURL('icon.svg') throws before the element is inserted
\* when the extension context is gone
createOverlay(W0) ==
  Then(W0, LAMBDA W :
  LET W1 == [W EXCEPT !.fh.faults = @ \cup
                 (IF ~W.media.mediaWatcherActive
                     \/ \E e \in getAllMedia(W) : ~W.doc.paused[e]
                  THEN {Fault(INACTIVE, "showBeforeWatch")} ELSE {})]
  IN IF W1.doc.overlay # "absent" THEN W1
     ELSE IF W1.fail THEN [W1 EXCEPT !.thrown = TRUE]
     ELSE [W1 EXCEPT !.doc.overlay = "shown"]
  )

\* faulty variant: the overlay is shown before the watcher is started
enterInactive_overlayFirst(W0, id) ==
  Then(W0, LAMBDA W :
  LET Wb == EnterBegins(W, id, INACTIVE)
      W1 == createOverlay(Wb)
      W2 == startMediaWatcher(W1)
      W3 == [W2 EXCEPT !.fsm.elapsedTimer = TRUE, !.fsm.pollTimer = TRUE]
  IN EnterEnds(W3, id)
  )

\* _enterInactive: watcher first, then overlay, elapsed timer, polling
enterInactive(W0, id) ==
  Then(W0, LAMBDA W :
  LET Wb == EnterBegins(W, id, INACTIVE)
      W1 == startMediaWatcher(Wb)
      W2 == createOverlay([W1 EXCEPT !.thrown = FALSE])
      W3 == IF W2.thrown THEN W2
            ELSE [W2 EXCEPT !.fsm.elapsedTimer = TRUE, !.fsm.pollTimer = TRUE]
  IN EnterEnds(W3, id)
  )

\* _fadeOutOverlay: resolves at once when there is no overlay or it is
\* already hiding; otherwise marks it hiding and arms the 300ms timer, on
\* which the caller (enter) stays suspended.
fadeOutOverlay(W0, id, enter) ==
  Then(W0, LAMBDA Wp :
  LET W == [Wp EXCEPT !.fh.faults = @ \cup
                 (IF Wp.media.mediaWatcherActive
                  THEN {Fault(enter, "hideWhileWatching")} ELSE {})]
  IN
  CASE W.doc.overlay = "absent" -> W
    [] W.doc.overlay = "hiding" -> [W EXCEPT !.doc.overlay = "absent"]
    [] W.doc.overlay = "shown" ->
         [W EXCEPT !.doc.overlay = "hiding",
                   !.doc.fadeTimers = W.doc.fadeTimers \cup {[id |-> id, enter |-> enter]}]
  )

Suspended(W, id) == \E t \in W.doc.fadeTimers : t.id = id

\* faulty variant: media is resumed before the overlay is faded out
enterActiveBegin_resumeFirst(W0, id) ==
  Then(W0, LAMBDA W :
  LET Wb == EnterBegins(W, id, ACTIVE)
      W1 == stopMediaWatcher(Wb)
      W2 == [W1 EXCEPT !.fsm.elapsedTimer = FALSE, !.fsm.pollTimer = FALSE]
      W3 == resumeOurPausedMedia(W2, ResumeTargets(W2))
  IN fadeOutOverlay(W3, id, ACTIVE)
  )

\* faulty variant: entering ACTIVE leaves the overlay in place
enterActiveBegin_noFade(W0, id) ==
  Then(W0, LAMBDA W :
  LET Wb == EnterBegins(W, id, ACTIVE)
      W1 == stopMediaWatcher(Wb)
  IN [W1 EXCEPT !.fsm.elapsedTimer = FALSE, !.fsm.pollTimer = FALSE]
  )

\* _enterActive up to and including the call of _fadeOutOverlay
enterActiveBegin(W0, id) ==
  Then(W0, LAMBDA W :
  LET Wb == EnterBegins(W, id, ACTIVE)
      W1 == stopMediaWatcher(Wb)
      W2 == [W1 EXCEPT !.fsm.elapsedTimer = FALSE, !.fsm.pollTimer = FALSE]
  IN fadeOutOverlay(W2, id, ACTIVE)
  )

\* _enterActive after the await: resume what we paused
enterActiveEnd(W0, id, ok) ==
  Then(W0, LAMBDA W :
  EnterEnds(resumeOurPausedMedia(W, ok), id)
  )

\* faulty variant: entering DISABLED leaves the media watcher running
enterDisabledBegin_keepWatcher(W0, id) ==
  Then(W0, LAMBDA W :
  LET Wb == EnterBegins(W, id, DISABLED)
      W2 == [Wb EXCEPT !.fsm.elapsedTimer = FALSE, !.fsm.pollTimer = FALSE]
  IN fadeOutOverlay(W2, id, DISABLED)
  )

\* _enterDisabled, the same two halves
enterDisabledBegin(W0, id) ==
  Then(W0, LAMBDA W :
  LET Wb == EnterBegins(W, id, DISABLED)
      W1 == stopMediaWatcher(Wb)
      W2 == [W1 EXCEPT !.fsm.elapsedTimer = FALSE, !.fsm.pollTimer = FALSE]
  IN fadeOutOverlay(W2, id, DISABLED)
  )

\* faulty variant: entering DISABLED ends without resuming what was paused
enterDisabledEnd_noResume(W0, id, ok) ==
  Then(W0, LAMBDA W :
  EnterEnds(W, id)
  )

enterDisabledEnd(W0, id, ok) ==
  Then(W0, LAMBDA W :
  EnterEnds(resumeOurPausedMedia(W, ok), id)
  )

RECURSIVE executeTransition(_, _, _, _)

\* faulty variant: the finally block forgets the queued request instead of running it
FinishTransition_noDrain(W0, ok) ==
  Then(W0, LAMBDA W :
  [W EXCEPT !.fsm.transitioning = FALSE, !.fh.lastQueued = 0,
            !.fsm.pendingTransition = NoPending]
  )

\* faulty variant: the finally block releases the lock and leaves the slot as it is
FinishTransition_keepsSlot(W0, ok) ==
  Then(W0, LAMBDA W :
  [W EXCEPT !.fsm.transitioning = FALSE, !.fh.lastQueued = 0]
  )

\* the finally block of _executeTransition: release the lock, drain the slot
FinishTransition(W0, ok) ==
  Then(W0, LAMBDA W :
  LET W1 == [W EXCEPT !.fsm.transitioning = FALSE, !.fh.lastQueued = 0]
      p == W1.fsm.pendingTransition
  IN IF p # NoPending
     THEN executeTransition([W1 EXCEPT !.fsm.pendingTransition = NoPending,
                                       !.fh.drained = W1.fh.drained \cup {p.data}],
                            p.state, p.data, ok)
     ELSE W1
  )

\* faulty variant: no same-state short cut: the enter effect runs for every request
executeTransition_noSameCheck(W0, newState, statusData, ok) ==
  Then(W0, LAMBDA W :
  LET Wa == [W EXCEPT !.fh.applied = W.fh.applied \cup {statusData},
                      !.fh.lastApplied = statusData]
      W1 == [Wa EXCEPT !.fsm.transitioning = TRUE,
                       !.fsm.state = newState,
                       !.fsm.statusData = IF statusData # 0 THEN statusData ELSE @,
                       !.fh.changed = IF newState # Wa.fsm.state
                                      THEN Wa.fh.changed \cup {statusData} ELSE Wa.fh.changed]
  IN CASE newState = INACTIVE -> FinishTransition(enterInactive(W1, statusData), ok)
       [] newState = ACTIVE ->
            LET W2 == enterActiveBegin(W1, statusData)
            IN IF Suspended(W2, statusData) THEN W2
               ELSE FinishTransition(enterActiveEnd(W2, statusData, ok), ok)
       [] newState = DISABLED ->
            LET W2 == enterDisabledBegin(W1, statusData)
            IN IF Suspended(W2, statusData) THEN W2
               ELSE FinishTransition(enterDisabledEnd(W2, statusData, ok), ok)
  )

\* faulty variant: the same-state branch re-pauses media in every mode
executeTransition_alwaysRepause(W0, newState, statusData, ok) ==
  Then(W0, LAMBDA W :
  LET Wa == [W EXCEPT !.fh.applied = W.fh.applied \cup {statusData},
                      !.fh.lastApplied = statusData]
  IN
  IF newState = Wa.fsm.state
  THEN LET W1 == IF statusData # 0 THEN [Wa EXCEPT !.fsm.statusData = statusData] ELSE Wa
           W2 == [W1 EXCEPT !.fh.overlap = W1.fh.overlap \/ (W1.fh.running # {} /\ W1.fsm.state = INACTIVE)]
       IN pauseAllMedia(W2)
  ELSE LET W1 == [Wa EXCEPT !.fsm.transitioning = TRUE,
                            !.fsm.state = newState,
                            !.fsm.statusData = IF statusData # 0 THEN statusData ELSE @,
                            !.fh.changed = Wa.fh.changed \cup {statusData}]
       IN CASE newState = INACTIVE -> FinishTransition(enterInactive(W1, statusData), ok)
            [] newState = ACTIVE ->
                 LET W2 == enterActiveBegin(W1, statusData)
                 IN IF Suspended(W2, statusData) THEN W2
                    ELSE FinishTransition(enterActiveEnd(W2, statusData, ok), ok)
            [] newState = DISABLED ->
                 LET W2 == enterDisabledBegin(W1, statusData)
                 IN IF Suspended(W2, statusData) THEN W2
                    ELSE FinishTransition(enterDisabledEnd(W2, statusData, ok), ok)
  )

\* faulty variant: the same-state branch leaves the retained payload as it was
executeTransition_keepOldPayload(W0, newState, statusData, ok) ==
  Then(W0, LAMBDA W :
  LET Wa == [W EXCEPT !.fh.applied = W.fh.applied \cup {statusData},
                      !.fh.lastApplied = statusData]
  IN
  IF newState = Wa.fsm.state
  THEN LET W1 == Wa
           W2 == [W1 EXCEPT !.fh.overlap = W1.fh.overlap \/ (W1.fh.running # {} /\ W1.fsm.state = INACTIVE)]
       IN IF W2.fsm.state = INACTIVE THEN pauseAllMedia(W2) ELSE W2
  ELSE LET W1 == [Wa EXCEPT !.fsm.transitioning = TRUE,
                            !.fsm.state = newState,
                            !.fsm.statusData = IF statusData # 0 THEN statusData ELSE @,
                            !.fh.changed = Wa.fh.changed \cup {statusData}]
       IN CASE newState = INACTIVE -> FinishTransition(enterInactive(W1, statusData), ok)
            [] newState = ACTIVE ->
                 LET W2 == enterActiveBegin(W1, statusData)
                 IN IF Suspended(W2, statusData) THEN W2
                    ELSE FinishTransition(enterActiveEnd(W2, statusData, ok), ok)
            [] newState = DISABLED ->
                 LET W2 == enterDisabledBegin(W1, statusData)
                 IN IF Suspended(W2, statusData) THEN W2
                    ELSE FinishTransition(enterDisabledEnd(W2, statusData, ok), ok)
  )

\* faulty variant: no try/finally: an enter handler that throws leaves the lock set
executeTransition_noFinally(W0, newState, statusData, ok) ==
  Then(W0, LAMBDA W :
  LET Wa == [W EXCEPT !.fh.applied = W.fh.applied \cup {statusData},
                      !.fh.lastApplied = statusData]
  IN
  IF newState = Wa.fsm.state
  THEN LET W1 == IF statusData # 0 THEN [Wa EXCEPT !.fsm.statusData = statusData] ELSE Wa
           W2 == [W1 EXCEPT !.fh.overlap = W1.fh.overlap \/ (W1.fh.running # {} /\ W1.fsm.state = INACTIVE)]
       IN IF W2.fsm.state = INACTIVE THEN pauseAllMedia(W2) ELSE W2
  ELSE LET W1 == [Wa EXCEPT !.fsm.transitioning = TRUE,
                            !.fsm.state = newState,
                            !.fsm.statusData = IF statusData # 0 THEN statusData ELSE @,
                            !.fh.changed = Wa.fh.changed \cup {statusData}]
       IN CASE newState = INACTIVE ->
                 LET We == enterInactive(W1, statusData)
                 IN IF We.thrown THEN We ELSE FinishTransition(We, ok)
            [] newState = ACTIVE ->
                 LET W2 == enterActiveBegin(W1, statusData)
                 IN IF Suspended(W2, statusData) THEN W2
                    ELSE FinishTransition(enterActiveEnd(W2, statusData, ok), ok)
            [] newState = DISABLED ->
                 LET W2 == enterDisabledBegin(W1, statusData)
                 IN IF Suspended(W2, statusData) THEN W2
                    ELSE FinishTransition(enterDisabledEnd(W2, statusData, ok), ok)
  )

\* _executeTransition(newState, statusData); statusData is identified by the
\* number of the request that carried it (0 = no payload)
executeTransition(W0, newState, statusData, ok) ==
  Then(W0, LAMBDA W :
  LET Wa == [W EXCEPT !.fh.applied = W.fh.applied \cup {statusData},
                      !.fh.lastApplied = statusData]
  IN
  IF newState = Wa.fsm.state
  THEN LET W1 == IF statusData # 0 THEN [Wa EXCEPT !.fsm.statusData = statusData] ELSE Wa
           W2 == [W1 EXCEPT !.fh.overlap = W1.fh.overlap \/ (W1.fh.running # {} /\ W1.fsm.state = INACTIVE)]
       IN IF W2.fsm.state = INACTIVE THEN pauseAllMedia(W2) ELSE W2
  ELSE LET W1 == [Wa EXCEPT !.fsm.transitioning = TRUE,
                            !.fsm.state = newState,
                            !.fsm.statusData = IF statusData # 0 THEN statusData ELSE @,
                            !.fh.changed = Wa.fh.changed \cup {statusData}]
       IN CASE newState = INACTIVE -> FinishTransition(enterInactive(W1, statusData), ok)
            [] newState = ACTIVE ->
                 LET W2 == enterActiveBegin(W1, statusData)
                 IN IF Suspended(W2, statusData) THEN W2
                    ELSE FinishTransition(enterActiveEnd(W2, statusData, ok), ok)
            [] newState = DISABLED ->
                 LET W2 == enterDisabledBegin(W1, statusData)
                 IN IF Suspended(W2, statusData) THEN W2
                    ELSE FinishTransition(enterDisabledEnd(W2, statusData, ok), ok)
  )

\* faulty variant: the slot keeps the first queued request instead of the latest
transition_keepFirst(W0, newState, statusData, ok) ==
  Then(W0, LAMBDA W :
  LET Wq == [W EXCEPT !.fh.issued = statusData, !.fh.lastTarget = newState]
  IN IF Wq.fsm.transitioning
     THEN [Wq EXCEPT !.fsm.pendingTransition =
                        IF @ = NoPending THEN [state |-> newState, data |-> statusData] ELSE @,
                     !.fh.superseded = Wq.fh.superseded \cup ({Wq.fh.lastQueued} \ {0}),
                     !.fh.lastQueued = statusData]
     ELSE executeTransition(Wq, newState, statusData, ok)
  )

\* faulty variant: no lock: a request made during a fade is executed at once
transition_noLock(W0, newState, statusData, ok) ==
  Then(W0, LAMBDA W :
  executeTransition([W EXCEPT !.fh.issued = statusData, !.fh.lastTarget = newState],
                    newState, statusData, ok)
  )

\* faulty variant: a queued request already overwrites the retained payload
transition_storeWhenQueued(W0, newState, statusData, ok) ==
  Then(W0, LAMBDA W :
  LET Wq == [W EXCEPT !.fh.issued = statusData, !.fh.lastTarget = newState]
  IN IF Wq.fsm.transitioning
     THEN [Wq EXCEPT !.fsm.pendingTransition = [state |-> newState, data |-> statusData],
                     !.fsm.statusData = statusData,
                     !.fh.superseded = Wq.fh.superseded \cup ({Wq.fh.lastQueued} \ {0}),
                     !.fh.lastQueued = statusData]
     ELSE executeTransition(Wq, newState, statusData, ok)
  )

\* transition(newState, statusData): queue (latest wins) or execute
transition(W0, newState, statusData, ok) ==
  Then(W0, LAMBDA W :
  LET Wq == [W EXCEPT !.fh.issued = statusData, !.fh.lastTarget = newState]
  IN IF Wq.fsm.transitioning
     THEN [Wq EXCEPT !.fsm.pendingTransition = [state |-> newState, data |-> statusData],
                     !.fh.superseded = Wq.fh.superseded \cup ({Wq.fh.lastQueued} \ {0}),
                     !.fh.lastQueued = statusData]
     ELSE executeTransition(Wq, newState, statusData, ok)
  )

\* faulty variant: the active flag is looked at before the disabled flag
TargetOf_activeFirst(status) ==
  IF status.active THEN ACTIVE
  ELSE IF status.disabled THEN DISABLED
  ELSE INACTIVE

\* handleStatusUpdate(status): disabled wins, then active, else INACTIVE
TargetOf(status) ==
  IF status.disabled THEN DISABLED
  ELSE IF status.active THEN ACTIVE
  ELSE INACTIVE

handleStatusUpdate(W, status, id, ok) == transition(W, TargetOf(status), id, ok)

\* the fields of a status payload that the content script reads or is told
Statuses == [disabled : BOOLEAN, active : BOOLEAN, daemonOnline : BOOLEAN]


\* ---------------------------------------------------------- background.js

Tabs == 1..NumTabs

\* The service-worker world as one value, threaded like World above.
BgWorld == [bg |-> bg, passes |-> passes, upds |-> upds, timers |-> timers,
            tabs |-> tabs, bh |-> bh]

SetBg(B) ==
  /\ bg' = B.bg
  /\ passes' = B.passes
  /\ upds' = B.upds
  /\ timers' = B.timers
  /\ tabs' = B.tabs
  /\ bh' = B.bh
  /\ UNCHANGED matcher
  /\ UNCHANGED cvars

\* the payload sent when the extension or the site is off: {active: true, disabled: true}
DisabledPayload == -1

\* urlMatchesAnySite(tab.url): the URL belongs to one of the configured sites
urlMatchesAnySite(B, t) == B.tabs[t] = "site"

\* urlMatchesEnabledSite(tab.url): global toggle on and the site's toggle on
urlMatchesEnabledSite(B, t) ==
  B.bg.settings.enabled /\ B.bg.settings.siteEnabled /\ B.tabs[t] = "site"

\* getEnabledPatterns().length === 0
NoEnabledPatterns(B) == ~(B.bg.settings.enabled /\ B.bg.settings.siteEnabled)

\* ------------------------------------------- urlMatchesEnabledSite(url)
\* URLs and match patterns are sequences of tokens: the separators that the
\* function's two regular expressions treat specially, and the host labels.
Star == [k |-> "*", n |-> 0]
Sep == [k |-> "://", n |-> 0]
Dot == [k |-> ".", n |-> 0]
Slash == [k |-> "/", n |-> 0]
Https == [k |-> "https", n |-> 0]
Www == [k |-> "www", n |-> 0]
Com == [k |-> "com", n |-> 0]
Name(i) == [k |-> "name", n |-> i]

\* settings.sites: site i is configured for the host name(i).com
SiteIds == 1..NumSites
\* the hosts URLs are drawn from: name(0) is the second host of site 2 (x.com
\* for Twitter/X), name(NumSites + 1) is configured for no site
HostIds == 0..(NumSites + 1)

\* '*://*.name.com/*'
Pat(i) == <<Star, Sep, Star, Dot, Name(i), Dot, Com, Slash, Star>>

\* site.patterns, in order; the second site carries two patterns
SitePatterns(i) == IF i = 2 THEN <<Pat(2), Pat(0)>> ELSE <<Pat(i)>>

\* 'https://name.com/' and 'https://www.name.com/'
Url(sub, h) ==
  <<Https, Sep>> \o (IF sub THEN <<Www, Dot>> ELSE <<>>) \o <<Name(h), Dot, Com, Slash>>

\* a page of an unconfigured host whose path carries the address of host h
UrlCarrying(h) == Url(FALSE, NumSites + 1) \o Url(TRUE, h)

\* a string that new URL() rejects
NotAUrl == <<Name(0)>>

Urls ==
  {Url(sub, h) : sub \in BOOLEAN, h \in HostIds}
    \cup {UrlCarrying(h) : h \in HostIds} \cup {NotAUrl}

MatchSettings == [enabled : BOOLEAN, sites : [SiteIds -> BOOLEAN]]

\* the longest prefix of s that holds no '/'
RECURSIVE UpToSlash(_)
UpToSlash(s) ==
  IF s = <<>> \/ Head(s) = Slash THEN <<>> ELSE <<Head(s)>> \o UpToSlash(Tail(s))

\* s from position j on
From(s, j) == IF j > Len(s) THEN <<>> ELSE SubSeq(s, j, Len(s))

\* new URL(url) succeeds: a scheme, '://' and a non-empty host
ValidUrl(url) ==
  Len(url) >= 3 /\ url[1] = Https /\ url[2] = Sep /\ UpToSlash(From(url, 3)) # <<>>

\* new URL(url).hostname
hostname(url) == UpToSlash(From(url, 3))

\* a regular expression built from literals and '.*', anchored at both ends
RECURSIVE GlobMatch(_, _)
GlobMatch(p, u) ==
  IF p = <<>> THEN u = <<>>
  ELSE IF Head(p) = Star
    THEN GlobMatch(Tail(p), u) \/ (u # <<>> /\ GlobMatch(p, Tail(u)))
    ELSE u # <<>> /\ Head(u) = Head(p) /\ GlobMatch(Tail(p), Tail(u))

\* new RegExp(regexPattern).test(url): '.' and '/' are escaped, '*' becomes
\* '.*', and the expression is not anchored, so it may match anywhere in url
regexTest(pattern, url) == GlobMatch(<<Star>> \o pattern \o <<Star>>, url)

\* /\*:\/\/\*?\.?([^\/]+)/ tried at position k of the pattern: the capture,
\* or <<>> when the expression does not match there
patternHostAt(p, k) ==
  IF ~(k + 1 <= Len(p) /\ p[k] = Star /\ p[k + 1] = Sep) THEN <<>>
  ELSE LET j == k + 2
           a == IF j <= Len(p) /\ p[j] = Star THEN j + 1 ELSE j
           b == IF a <= Len(p) /\ p[a] = Dot THEN a + 1 ELSE a
       IN IF UpToSlash(From(p, b)) # <<>> THEN UpToSlash(From(p, b))
          ELSE IF UpToSlash(From(p, a)) # <<>> THEN UpToSlash(From(p, a))
          ELSE UpToSlash(From(p, j))

\* pattern.match(/\*:\/\/\*?\.?([^\/]+)/)?.[1], <<>> for undefined
patternHost(p) ==
  LET at == {k \in 1..Len(p) : patternHostAt(p, k) # <<>>}
  IN IF at = {} THEN <<>>
     ELSE patternHostAt(p, CHOOSE k \in at : \A m \in at : k <= m)

\* hostname.endsWith('.' + patternHost)
endsWith(h, suffix) ==
  Len(h) >= Len(suffix) /\ SubSeq(h, Len(h) - Len(suffix) + 1, Len(h)) = suffix

\* the two tests the inner loop applies to one pattern
PatternMatches(pattern, url) ==
  \/ regexTest(pattern, url)
  \/ /\ patternHost(pattern) # <<>>
     /\ \/ hostname(url) = patternHost(pattern)
        \/ endsWith(hostname(url), <<Dot>> \o patternHost(pattern))

\* site i, when the loop reaches it, returns true
SiteMatches(st, i, url) ==
  /\ st.sites[i]
  /\ \E n \in 1..Len(SitePatterns(i)) : PatternMatches(SitePatterns(i)[n], url)

\* faulty variant: the loop does not skip the sites whose own toggle is off
urlMatchesEnabledSiteOf_anySite(st, url) ==
  IF ~st.enabled THEN FALSE
  ELSE IF ~ValidUrl(url) THEN FALSE
  ELSE \E i \in SiteIds :
         \E n \in 1..Len(SitePatterns(i)) : PatternMatches(SitePatterns(i)[n], url)

\* urlMatchesEnabledSite(url) under the settings st
urlMatchesEnabledSiteOf(st, url) ==
  IF ~st.enabled THEN FALSE
  ELSE IF ~ValidUrl(url) THEN FALSE
  ELSE \E i \in SiteIds : SiteMatches(st, i, url)

\* chrome.tabs.sendMessage(tab.id, {type, status}) is issued by caller `by`
\* (a pass: <<"pass", id>>, an enumeration: <<"upd", gen>>); ver is the settings
\* generation under which the caller chose between status and disabled payload.
\* History: what a tab holding the content script was last sent, and whether
\* it was then sent the other kind of payload chosen under older settings.
SendMessage(B0, by, t, payload, ver) ==
  Then(B0, LAMBDA B :
  LET isDisabled == payload = DisabledPayload
      present == t \in B.bg.injectedTabs
      last == B.bh.last[t]
      Bs == [B EXCEPT
               !.bh.olderSent = @ \/ (present /\ ver < last.ver /\ isDisabled # last.disabled),
               !.bh.last[t] = IF present /\ ver >= last.ver
                              THEN [ver |-> ver, disabled |-> isDisabled] ELSE @]
  IN IF by[1] = "pass"
     THEN [Bs EXCEPT !.bh.passPayloads = IF by[2] = B.bh.passCount THEN @ \cup {payload} ELSE @]
     ELSE [Bs EXCEPT !.bh.staleSends[by[2]] =
                       IF by[2] # B.bg.updateGeneration THEN @ \cup {t} ELSE @]
  )

\* faulty variant: the status the worker started with is sent for ever
StatusPayload_initial(B) == 0

\* { ...lastStatus, timeout: settings.timeout }, read when the message is built
StatusPayload(B) == B.bg.lastStatus

\* injectContentScript(tabId) after its awaits (insertCSS, executeScript x2):
\* on success the tab is recorded and INIT is sent with the status of that moment;
\* a failed injection is swallowed
injectContentScriptEnd(B0, by, t, ok, ver) ==
  Then(B0, LAMBDA B :
  IF ok
  THEN SendMessage([B EXCEPT !.bg.injectedTabs = @ \cup {t}], by, t, StatusPayload(B), ver)
  ELSE B
  )

\* ---- serializedBroadcast / broadcastStatus

\* ver: the settings generation of the decision the pass is acting on while it
\* awaits (0 where no decision is pending)
SetPass(B, id, pc, i, ver) ==
  [B EXCEPT !.passes = {q \in @ : q.id # id} \cup
                          {[id |-> id, pc |-> pc, idx |-> i, ver |-> ver]}]

PassVer(B, id) == (CHOOSE q \in B.passes : q.id = id).ver

\* faulty variant: a finally block that clears the queued flag without scheduling the follow-up
serializedBroadcastFinally_noFollowUp(B0, id) ==
  Then(B0, LAMBDA B :
  [B EXCEPT !.passes = {q \in @ : q.id # id},
            !.bg.broadcastInProgress = FALSE,
            !.bg.broadcastQueued = FALSE,
            !.bh.failed = @ \ {"pass"},
            !.bh.queryFailed = FALSE]
  )

\* faulty variant: a finally block that schedules the follow-up but leaves the queued flag set
serializedBroadcastFinally_keepsQueued(B0, id) ==
  Then(B0, LAMBDA B :
  LET B1 == [B EXCEPT !.passes = {q \in @ : q.id # id},
                      !.bg.broadcastInProgress = FALSE,
                      !.bh.failed = @ \ {"pass"},
                      !.bh.queryFailed = FALSE]
  IN IF B1.bg.broadcastQueued
     THEN [B1 EXCEPT !.timers = IF @ < MaxReq THEN @ + 1 ELSE @]
     ELSE B1
  )

\* the finally block of serializedBroadcast, run when broadcastStatus returns
serializedBroadcastFinally(B0, id) ==
  Then(B0, LAMBDA B :
  LET B1 == [B EXCEPT !.passes = {q \in @ : q.id # id},
                      !.bg.broadcastInProgress = FALSE,
                      !.bh.failed = @ \ {"pass"},
                      !.bh.queryFailed = FALSE]
  IN IF B1.bg.broadcastQueued
     THEN [B1 EXCEPT !.bg.broadcastQueued = FALSE, !.timers = @ + 1]
     ELSE B1
  )

RECURSIVE broadcastDisabledLoop(_, _, _)

\* broadcastStatus, the loop taken when settings.enabled is false, from tab i on
broadcastDisabledLoop(B0, id, i) ==
  Then(B0, LAMBDA B :
  IF i > NumTabs THEN serializedBroadcastFinally(B, id)
  ELSE IF ~urlMatchesAnySite(B, i) THEN broadcastDisabledLoop(B, id, i + 1)
  ELSE SetPass(SendMessage(B, <<"pass", id>>, i, DisabledPayload, PassVer(B, id)),
               id, "sendDisabled", i, PassVer(B, id))
  )

RECURSIVE broadcastEnabledLoop(_, _, _)

\* broadcastStatus, the loop over the tabs of enabled sites, from tab i on
broadcastEnabledLoop(B0, id, i) ==
  Then(B0, LAMBDA B :
  IF i > NumTabs THEN serializedBroadcastFinally(B, id)
  ELSE IF ~urlMatchesEnabledSite(B, i) THEN broadcastEnabledLoop(B, id, i + 1)
  ELSE IF i \notin B.bg.injectedTabs THEN SetPass(B, id, "inject", i, B.bg.updateGeneration)
  ELSE SetPass(SendMessage(B, <<"pass", id>>, i, StatusPayload(B), B.bg.updateGeneration),
               id, "send", i, 0)
  )

\* broadcastStatus after `await chrome.tabs.query({})`
broadcastStatusAfterQuery(B0, id) ==
  Then(B0, LAMBDA B :
  IF ~B.bg.settings.enabled
  THEN broadcastDisabledLoop(SetPass(B, id, "query", 0, B.bg.updateGeneration), id, 1)
  ELSE IF NoEnabledPatterns(B) THEN serializedBroadcastFinally(B, id)
  ELSE broadcastEnabledLoop(B, id, 1)
  )

\* faulty variant: a serializedBroadcast without the broadcastInProgress guard
serializedBroadcast_noGuard(B0) ==
  Then(B0, LAMBDA B :
  LET id == B.bh.passCount + 1
  IN SetPass([B EXCEPT !.bg.broadcastInProgress = TRUE,
                       !.bh.passCount = id,
                       !.bh.passPayloads = {},
                            !.bh.passStart = B.bg.lastStatus,
                       !.bh.unreflected = FALSE], id, "query", 0, 0)
  )

\* faulty variant: a serializedBroadcast that schedules one follow-up per queued request
serializedBroadcast_noCoalesce(B0) ==
  Then(B0, LAMBDA B :
  IF B.bg.broadcastInProgress
  THEN [B EXCEPT !.timers = IF @ < MaxReq THEN @ + 1 ELSE @]
  ELSE LET id == B.bh.passCount + 1
       IN SetPass([B EXCEPT !.bg.broadcastInProgress = TRUE,
                            !.bh.passCount = id,
                            !.bh.passPayloads = {},
                            !.bh.passStart = B.bg.lastStatus,
                            !.bh.unreflected = FALSE], id, "query", 0, 0)
  )

\* serializedBroadcast(): queue behind the pass in flight, or start a pass
serializedBroadcast(B0) ==
  Then(B0, LAMBDA B :
  IF B.bg.broadcastInProgress
  THEN [B EXCEPT !.bg.broadcastQueued = TRUE]
  ELSE LET id == B.bh.passCount + 1
       IN SetPass([B EXCEPT !.bg.broadcastInProgress = TRUE,
                            !.bh.passCount = id,
                            !.bh.passPayloads = {},
                            !.bh.passStart = B.bg.lastStatus,
                            !.bh.unreflected = FALSE], id, "query", 0, 0)
  )

\* ---- serializedUpdateAllSites / updateAllSites(gen)

SetUpd(B, g, pc, i) == [B EXCEPT !.upds[g] = [pc |-> pc, idx |-> i]]

\* faulty variant: a checkpoint that never fires
Superseded_never(B, g) == FALSE

\* faulty variant: a checkpoint that also stops the newest enumeration
Superseded_inclusive(B, g) == g <= B.bg.updateGeneration

\* the checkpoint `if (gen !== updateGeneration) return;`
Superseded(B, g) == g # B.bg.updateGeneration

RECURSIVE updateAllSitesLoop(_, _, _)

\* updateAllSites(gen): the loop from tab i on, up to its next await
updateAllSitesLoop(B0, g, i) ==
  Then(B0, LAMBDA B :
  IF i > NumTabs THEN SetUpd(B, g, "done", i)
  ELSE IF Superseded(B, g) THEN SetUpd([B EXCEPT !.bh.aborted[g] = TRUE], g, "done", i)
  ELSE LET Bv == [B EXCEPT !.bh.visited[g] = @ \cup {i}]
       IN IF ~urlMatchesAnySite(Bv, i) THEN updateAllSitesLoop(Bv, g, i + 1)
          ELSE IF Bv.bg.settings.enabled /\ urlMatchesEnabledSite(Bv, i)
          THEN IF i \notin Bv.bg.injectedTabs THEN SetUpd(Bv, g, "inject", i)
               ELSE SetUpd(SendMessage(Bv, <<"upd", g>>, i, StatusPayload(Bv), g), g, "send", i)
          ELSE SetUpd(SendMessage(Bv, <<"upd", g>>, i, DisabledPayload, g), g, "sendDisabled", i)
  )

\* faulty variant: a call made while an enumeration is in flight reuses its generation
serializedUpdateAllSites_reuseGen(B0) ==
  Then(B0, LAMBDA B :
  LET cur == B.bg.updateGeneration
      gen == IF cur > 0 /\ B.upds[cur].pc \notin {"none", "done"} THEN cur ELSE cur + 1
  IN SetUpd([B EXCEPT !.bg.updateGeneration = gen, !.bh.updCalls = @ + 1,
             !.bh.failed = @ \ {"upd"}], gen, "query", 0)
  )

\* serializedUpdateAllSites(): const gen = ++updateGeneration; updateAllSites(gen)
serializedUpdateAllSites(B0) ==
  Then(B0, LAMBDA B :
  LET gen == B.bg.updateGeneration + 1
  IN SetUpd([B EXCEPT !.bg.updateGeneration = gen,
                      !.bh.updCalls = @ + 1,
                      !.bh.failed = @ \ {"upd"},
                      !.bh.atSupersede = [g \in 1..MaxGen |->
                          IF g < gen /\ B.upds[g].pc \notin {"none", "done"} /\ @[g] = -1
                          THEN B.upds[g].idx ELSE @[g]]],
            gen, "query", 0)
  )

\* ------------------------------------------------------------------ Init

InitContent ==
  /\ fsm = [state |-> ACTIVE, transitioning |-> FALSE, pendingTransition |-> NoPending,
            statusData |-> 0, pollTimer |-> FALSE, elapsedTimer |-> FALSE]
  /\ media = [pausedByUs |-> {}, mediaWatcherActive |-> FALSE,
              observing |-> FALSE, fallbackInterval |-> FALSE]
  /\ doc = [paused |-> [e \in Els |-> FALSE], inDoc |-> Els,
            overlay |-> "absent", fadeTimers |-> {}]
  /\ net = [polls |-> 0, stale |-> 0]
  /\ mh = [everOwned |-> {}, cause |-> [e \in Els |-> "none"],
           lastPlayed |-> {}, playedForeign |-> FALSE, resumeTick |-> 0,
           lastWatch |-> "none"]
  /\ fh = [issued |-> 0, lastTarget |-> ACTIVE, lastQueued |-> 0, superseded |-> {},
           applied |-> {}, changed |-> {}, drained |-> {}, enterDone |-> {},
           running |-> {}, overlap |-> FALSE,
           enterRuns |-> [i \in 1..MaxCalls |-> 0], lastEnter |-> ACTIVE,
           resumedThisEnter |-> FALSE, faults |-> {}, lastApplied |-> 0,
           truth |-> ACTIVE]

TabKinds == {"site", "other"}
Settings == [enabled : BOOLEAN, siteEnabled : BOOLEAN]

InitBg ==
  /\ \E st \in Settings :
       bg = [settings |-> st,
           lastStatus |-> 0, injectedTabs |-> {},
           broadcastInProgress |-> FALSE, broadcastQueued |-> FALSE,
           updateGeneration |-> 0]
  /\ passes = {}
  /\ upds = [g \in 1..MaxGen |-> [pc |-> "none", idx |-> 0]]
  /\ timers = 0
  /\ tabs \in [Tabs -> TabKinds]
  /\ bh = [passCount |-> 0, passPayloads |-> {}, unreflected |-> FALSE,
           reqDuringFirst |-> 0, reqOther |-> FALSE,
           staleSends |-> [g \in 1..MaxGen |-> {}],
           aborted |-> [g \in 1..MaxGen |-> FALSE],
           atSupersede |-> [g \in 1..MaxGen |-> -1],
           last |-> [t \in Tabs |-> [ver |-> 0, disabled |-> FALSE]],
           olderSent |-> FALSE,
           updCalls |-> 0,
           failed |-> {}, queryFailed |-> FALSE, passStart |-> 0,
           visited |-> [g \in 1..MaxGen |-> {}]]

\* the service worker at rest with the default settings, every tab on a configured site
InitBackground ==
  /\ InitBg
  /\ bg.settings = [enabled |-> TRUE, siteEnabled |-> TRUE]
  /\ tabs = [t \in Tabs |-> "site"]

\* urlMatchesEnabledSite has not been called
NoLookup ==
  [settings |-> [enabled |-> TRUE, sites |-> [i \in SiteIds |-> i = 1]],
   url |-> NotAUrl, result |-> "none"]

\* a freshly injected content script; the service worker stays at rest
InitPage == InitContent /\ InitBackground /\ matcher = NoLookup

\* a freshly started service worker under any stored settings and tab layout
InitWorker == InitContent /\ InitBg /\ matcher = NoLookup

\* the service worker at rest, under any stored settings, with a tab at any URL
InitMatch ==
  /\ InitContent /\ InitBackground
  /\ matcher \in [settings : MatchSettings, url : Urls, result : {"none"}]

\* ---------------------------------------------- actions: the environment

\* the page or the user starts / stops an element
UserPlay(e) ==
  /\ doc.paused[e]
  /\ doc' = [doc EXCEPT !.paused[e] = FALSE]
  /\ mh' = [mh EXCEPT !.cause[e] = "none"]
  /\ UNCHANGED <<fsm, media, net, fh, bg, passes, upds, timers, tabs, bh, matcher>>

UserPause(e) ==
  /\ ~doc.paused[e]
  /\ doc' = [doc EXCEPT !.paused[e] = TRUE]
  /\ mh' = [mh EXCEPT !.cause[e] = "other"]
  /\ UNCHANGED <<fsm, media, net, fh, bg, passes, upds, timers, tabs, bh, matcher>>

\* the page inserts a media element; the MutationObserver callback
\* (onMutations) runs for it while the observer is connected
AddElement(e) ==
  /\ e \notin doc.inDoc
  /\ LET W1 == [World EXCEPT !.doc.inDoc = doc.inDoc \cup {e}]
     IN SetWorld(IF W1.media.observing THEN onMediaElementFound(W1, e) ELSE W1)

RemoveElement(e) ==
  /\ e \in doc.inDoc
  /\ doc' = [doc EXCEPT !.inDoc = doc.inDoc \ {e}]
  /\ UNCHANGED <<fsm, media, net, mh, fh, bg, passes, upds, timers, tabs, bh, matcher>>

\* setInterval(fallbackPause, 1000)
FallbackTick ==
  /\ media.fallbackInterval
  /\ SetWorld(fallbackPause(World))

\* ------------------------------------- actions: the media API called directly

\* (the machine is not involved: these drive window.__claudeFocusMedia directly)
CallPauseAllMedia ==
  /\ ~fsm.transitioning
  /\ SetWorld(pauseAllMedia(World))

CallResumeOurPausedMedia ==
  /\ ~fsm.transitioning
  /\ \E ok \in SUBSET ResumeTargets(World) : SetWorld(resumeOurPausedMedia(World, ok))

CallStartMediaWatcher ==
  /\ ~fsm.transitioning
  /\ SetWorld(startMediaWatcher(World))

CallStopMediaWatcher ==
  /\ ~fsm.transitioning
  /\ SetWorld(stopMediaWatcher(World))

\* ------------------------------------------- actions: the content script

\* The outcomes of the play() calls a request handler can make. A request
\* reaches resumeOurPausedMedia in its own task only when it is executed at
\* once (no transition in progress) and the fade resolves at once (no
\* overlay element); otherwise no play() is called and there is one outcome.
PlayOutcomes(W) ==
  IF W.fsm.transitioning \/ W.doc.overlay # "absent"
  THEN {{}}
  ELSE SUBSET ResumeTargets(W)

\* An observation made now has been handed to the machine: it is the newest,
\* and the answer of every poll still in flight is older than it (history).
Observed(W, target) ==
  [W EXCEPT !.fh.truth = target, !.net.stale = W.net.polls]

\* chrome.runtime.onMessage: STATUS_UPDATE or INIT pushed by the background
OnMessage(status) ==
  /\ fh.issued < MaxCalls
  /\ \E ok \in PlayOutcomes(World) :
       SetWorld(Observed(handleStatusUpdate(World, status, fh.issued + 1, ok), TargetOf(status)))

\* reply to GET_STATUS (the initial request and the 5s ping); a missing
\* reply to the initial request is handled as inactive / daemon offline
GetStatusReply(status) ==
  /\ fh.issued < MaxCalls
  /\ \E ok \in PlayOutcomes(World) :
       SetWorld(Observed(handleStatusUpdate(World, status, fh.issued + 1, ok), TargetOf(status)))

\* setInterval(_pollDaemon): fetch() leaves
PollTick ==
  /\ fsm.pollTimer
  /\ net.polls < MaxPolls
  /\ net' = [net EXCEPT !.polls = @ + 1]
  /\ UNCHANGED <<fsm, media, doc, mh, fh, bg, passes, upds, timers, tabs, bh, matcher>>

\* the fetch settles with data: transition(active ? ACTIVE : INACTIVE, ...).
\* The daemon answered when the fetch left; late: an observation made since
\* then has already been handed to the machine.
PollResponse(active, late) ==
  /\ net.polls > 0
  /\ IF late THEN net.stale > 0 ELSE net.stale < net.polls
  /\ fh.issued < MaxCalls
  /\ LET target == IF active THEN ACTIVE ELSE INACTIVE
         W1 == [World EXCEPT !.net.polls = @ - 1,
                             !.net.stale = IF late THEN @ - 1 ELSE @]
     IN \E ok \in PlayOutcomes(World) :
          LET W2 == transition(W1, target, fh.issued + 1, ok)
          IN SetWorld(IF late THEN W2 ELSE [W2 EXCEPT !.fh.truth = target])

\* the fetch rejects: stay in the current state
PollFail ==
  /\ net.polls > 0
  /\ net' = [net EXCEPT !.polls = @ - 1,
                        !.stale = IF @ > net.polls - 1 THEN net.polls - 1 ELSE @]
  /\ UNCHANGED <<fsm, media, doc, mh, fh, bg, passes, upds, timers, tabs, bh, matcher>>

\* the 300ms timer of _fadeOutOverlay fires: overlay.remove(); resolve();
\* then the rest of the suspended enter effect and the finally block
FadeDone(t) ==
  /\ t \in doc.fadeTimers
  /\ \E ok \in SUBSET ResumeTargets(World) :
       LET W1 == [World EXCEPT !.doc.fadeTimers = doc.fadeTimers \ {t},
                               !.doc.overlay = IF @ = "hiding" THEN "absent" ELSE @]
           W2 == IF t.enter = ACTIVE THEN enterActiveEnd(W1, t.id, ok)
                 ELSE enterDisabledEnd(W1, t.id, ok)
       IN SetWorld(FinishTransition(W2, ok))

FadeTimers == [id : 1..MaxCalls, enter : {ACTIVE, DISABLED}]

\* the same world for a task in which chrome.runtime calls throw
Failing(W) == [W EXCEPT !.fail = TRUE]

\* a pushed status handled after the extension context was invalidated
OnMessageThrows(status) ==
  /\ fh.issued < MaxCalls
  /\ \E ok \in PlayOutcomes(World) :
       SetWorld(Observed(handleStatusUpdate(Failing(World), status, fh.issued + 1, ok),
                         TargetOf(status)))

\* the fade timer fires after the extension context was invalidated
FadeDoneThrows(t) ==
  /\ t \in doc.fadeTimers
  /\ \E ok \in SUBSET ResumeTargets(World) :
       LET W1 == [Failing(World) EXCEPT !.doc.fadeTimers = doc.fadeTimers \ {t},
                                        !.doc.overlay = IF @ = "hiding" THEN "absent" ELSE @]
           W2 == IF t.enter = ACTIVE THEN enterActiveEnd(W1, t.id, ok)
                 ELSE enterDisabledEnd(W1, t.id, ok)
       IN SetWorld(FinishTransition(W2, ok))

\* ------------------------------------------- actions: the service worker

\* checkStatus() after its fetch, or the WebSocket onmessage handler:
\* lastStatus is replaced and serializedBroadcast() is called
StatusChange ==
  /\ bg.lastStatus < MaxReq
  /\ LET during == bg.broadcastInProgress /\ bh.passCount = 1
         B1 == [BgWorld EXCEPT
                  !.bg.lastStatus = @ + 1,
                  !.bh.unreflected = TRUE,
                  !.bh.reqDuringFirst = IF during /\ @ < 2 THEN @ + 1 ELSE @,
                  !.bh.reqOther = @ \/ (~during /\ bh.passCount > 0)]
     IN SetBg(serializedBroadcast(B1))

\* the setTimeout(0) callback queued by the finally block
FollowUpFires ==
  /\ timers > 0
  /\ SetBg(serializedBroadcast([BgWorld EXCEPT !.timers = @ - 1]))

BroadcastQueryReturns(q) ==
  /\ q \in passes
  /\ q.pc = "query"
  /\ SetBg(broadcastStatusAfterQuery(BgWorld, q.id))

\* faulty variant: the flag is reset after the await instead of in a finally
\* block, so a pass that fails leaves it set
BroadcastQueryFails_noFinally(q) ==
  /\ q \in passes
  /\ q.pc = "query"
  /\ SetBg([BgWorld EXCEPT !.passes = {p \in @ : p.id # q.id}, !.bh.queryFailed = TRUE])

\* chrome.tabs.query rejects: caught by broadcastStatus, which returns
\* (bh.queryFailed: the pass that ended last had failed)
BroadcastQueryFails(q) ==
  /\ q \in passes
  /\ q.pc = "query"
  /\ SetBg([serializedBroadcastFinally(BgWorld, q.id) EXCEPT !.bh.queryFailed = TRUE])

\* `await injectContentScript(tab.id)` returns; STATUS_UPDATE is sent next
BroadcastInjectReturns(q, ok) ==
  /\ q \in passes
  /\ q.pc = "inject"
  /\ LET by == <<"pass", q.id>>
         B1 == injectContentScriptEnd(BgWorld, by, q.idx, ok, q.ver)
         B2 == SendMessage(B1, by, q.idx, StatusPayload(B1), q.ver)
     IN SetBg(SetPass(B2, q.id, "send", q.idx, 0))

\* faulty variant: a rejected send ends the pass
BroadcastSendReturns_abortOnFailure(q, ok) ==
  /\ q \in passes
  /\ q.pc \in {"send", "sendDisabled"}
  /\ LET B0 == IF ok THEN BgWorld ELSE [BgWorld EXCEPT !.bh.failed = @ \cup {"pass"}]
     IN IF ~ok THEN SetBg(serializedBroadcastFinally(B0, q.id))
        ELSE IF q.pc = "send" THEN SetBg(broadcastEnabledLoop(B0, q.id, q.idx + 1))
        ELSE SetBg(broadcastDisabledLoop(B0, q.id, q.idx + 1))

\* `await chrome.tabs.sendMessage(...)` settles: a rejection drops the tab
\* from injectedTabs (enabled branch) or is ignored (disabled branch)
BroadcastSendReturns(q, ok) ==
  /\ q \in passes
  /\ q.pc \in {"send", "sendDisabled"}
  /\ LET B0 == IF ok THEN BgWorld ELSE [BgWorld EXCEPT !.bh.failed = @ \cup {"pass"}]
     IN IF q.pc = "send"
        THEN LET B1 == IF ok THEN B0
                       ELSE [B0 EXCEPT !.bg.injectedTabs = @ \ {q.idx}]
             IN SetBg(broadcastEnabledLoop(B1, q.id, q.idx + 1))
        ELSE SetBg(broadcastDisabledLoop(B0, q.id, q.idx + 1))

\* onMessage SETTINGS_CHANGED: settings = message.settings; serializedUpdateAllSites()
SettingsChanged(newSettings) ==
  /\ bg.updateGeneration < MaxGen
  /\ SetBg(serializedUpdateAllSites([BgWorld EXCEPT !.bg.settings = newSettings]))

UpdQueryReturns(g) ==
  /\ upds[g].pc = "query"
  /\ SetBg(updateAllSitesLoop(BgWorld, g, 1))

\* chrome.tabs.query rejects: caught by updateAllSites, which returns
UpdQueryFails(g) ==
  /\ upds[g].pc = "query"
  /\ SetBg(SetUpd(BgWorld, g, "done", 0))

UpdInjectReturns(g, ok) ==
  /\ upds[g].pc = "inject"
  /\ LET by == <<"upd", g>>
         i == upds[g].idx
         B1 == injectContentScriptEnd(BgWorld, by, i, ok, g)
         B2 == SendMessage(B1, by, i, StatusPayload(B1), g)
     IN SetBg(SetUpd(B2, g, "send", i))

UpdSendReturns(g, ok) ==
  /\ upds[g].pc \in {"send", "sendDisabled"}
  /\ LET i == upds[g].idx
         B0 == IF ok THEN BgWorld ELSE [BgWorld EXCEPT !.bh.failed = @ \cup {"upd"}]
         B1 == IF ok \/ upds[g].pc = "sendDisabled" THEN B0
               ELSE [B0 EXCEPT !.bg.injectedTabs = @ \ {i}]
     IN SetBg(updateAllSitesLoop(B1, g, i + 1))

\* the first status change after the worker started
FirstStatusChange ==
  /\ bg.lastStatus = 0
  /\ StatusChange

\* the first SETTINGS_CHANGED after the worker started
FirstSettingsChanged(newSettings) ==
  /\ bg.updateGeneration = 0
  /\ SettingsChanged(newSettings)

PassRecs == [id : 1..(2 * MaxReq), pc : {"query", "inject", "send", "sendDisabled"},
             idx : 0..NumTabs, ver : 0..MaxGen]

\* ------------------------------------------------------- specifications

EnvNext ==
  \/ \E e \in Els : UserPlay(e)
  \/ \E e \in Els : UserPause(e)
  \/ \E e \in Els : AddElement(e)
  \/ \E e \in Els : RemoveElement(e)
  \/ FallbackTick

\* the media controller driven through its exported API
MediaNext ==
  \/ EnvNext
  \/ CallPauseAllMedia
  \/ CallResumeOurPausedMedia
  \/ CallStartMediaWatcher
  \/ CallStopMediaWatcher

SpecMedia == InitPage /\ [][MediaNext]_vars

\* every status source funnels into the machine
MachineStep ==
  \/ \E s \in Statuses : OnMessage(s)
  \/ \E s \in Statuses : GetStatusReply(s)
  \/ PollTick
  \/ \E a \in BOOLEAN, late \in BOOLEAN : PollResponse(a, late)
  \/ PollFail
  \/ \E t \in FadeTimers : FadeDone(t)

\* the content script on a page whose user plays and pauses media
ContentNext ==
  \/ \E e \in Els : UserPlay(e)
  \/ \E e \in Els : UserPause(e)
  \/ FallbackTick
  \/ MachineStep

SpecContent == InitPage /\ [][ContentNext]_vars

BroadcastStep ==
  \/ FollowUpFires
  \/ \E q \in PassRecs : BroadcastQueryReturns(q)
  \/ \E q \in PassRecs : BroadcastQueryFails(q)
  \/ \E q \in PassRecs, ok \in BOOLEAN : BroadcastInjectReturns(q, ok)
  \/ \E q \in PassRecs, ok \in BOOLEAN : BroadcastSendReturns(q, ok)

UpdateStep ==
  \/ \E g \in 1..MaxGen : UpdQueryReturns(g)
  \/ \E g \in 1..MaxGen : UpdQueryFails(g)
  \/ \E g \in 1..MaxGen, ok \in BOOLEAN : UpdInjectReturns(g, ok)
  \/ \E g \in 1..MaxGen, ok \in BOOLEAN : UpdSendReturns(g, ok)

\* status changes only: the broadcast serializer under any stored settings
BroadcastNext ==
  \/ StatusChange
  \/ BroadcastStep

SpecBroadcast == InitWorker /\ [][BroadcastNext]_vars

\* every await of a pass settles and the follow-up timer fires
LiveBroadcast == SpecBroadcast /\ WF_vars(BroadcastStep)

\* settings changes only: the generation-guarded enumerations
UpdateNext ==
  \/ \E st \in Settings : SettingsChanged(st)
  \/ UpdateStep

SpecUpdate == InitWorker /\ [][UpdateNext]_vars

\* the whole service worker
BackgroundNext ==
  \/ StatusChange
  \/ BroadcastStep
  \/ \E st \in Settings : SettingsChanged(st)
  \/ UpdateStep

SpecBackground == InitWorker /\ [][BackgroundNext]_vars

\* one broadcast pass and one settings enumeration over the same tabs
FanOutNext ==
  \/ FirstStatusChange
  \/ \E st \in Settings : FirstSettingsChanged(st)
  \/ \E q \in PassRecs : BroadcastQueryReturns(q)
  \/ \E q \in PassRecs : BroadcastQueryFails(q)
  \/ \E q \in PassRecs, ok \in BOOLEAN : BroadcastInjectReturns(q, ok)
  \/ \E q \in PassRecs, ok \in BOOLEAN : BroadcastSendReturns(q, ok)
  \/ UpdateStep

SpecFanOut == InitWorker /\ [][FanOutNext]_vars

\* tasks that run after the extension context was invalidated
ThrowStep ==
  \/ \E s \in Statuses : OnMessageThrows(s)
  \/ \E t \in FadeTimers : FadeDoneThrows(t)

ThrowNext ==
  \/ MachineStep
  \/ ThrowStep

\* the content script with enter handlers that may throw
SpecThrow == InitPage /\ [][ThrowNext]_vars

\* --------------------------------------- the URL matcher taken on its own

\* chrome.tabs.onUpdated: the tab is now at url and the handler asks
\* urlMatchesEnabledSite(url) under the settings of the moment
TabUpdated(url) ==
  /\ matcher' = [matcher EXCEPT
       !.url = url,
       !.result = IF urlMatchesEnabledSiteOf(matcher.settings, url)
                    THEN "true" ELSE "false"]
  /\ UNCHANGED <<fsm, media, doc, net, mh, fh, bg, passes, upds, timers, tabs, bh>>

\* SETTINGS_CHANGED: settings = message.settings; the answer given under the
\* old settings is no longer the function's answer
MatcherSettingsChanged(st) ==
  /\ st # matcher.settings
  /\ matcher' = [matcher EXCEPT !.settings = st, !.result = "none"]
  /\ UNCHANGED <<fsm, media, doc, net, mh, fh, bg, passes, upds, timers, tabs, bh>>

MatchNext ==
  \/ \E url \in Urls : TabUpdated(url)
  \/ \E st \in MatchSettings : MatcherSettingsChanged(st)

SpecMatch == InitMatch /\ [][MatchNext]_vars

\* the content script on a page the user leaves alone
SpecMachine == InitPage /\ [][MachineStep]_vars

\* the fade timer always fires
LiveContent == SpecMachine /\ WF_vars(\E t \in FadeTimers : FadeDone(t))

\* ------------------------------------------------- FocusStateMachine claims

Quiescent == ~fsm.transitioning /\ fsm.pendingTransition = NoPending

\* C1: the pending slot holds only the most recently issued request; when the
\* executing transition finishes, the last-issued request has been applied
\* and no request that was queued and then replaced is ever applied.
C1_LatestWins ==
  /\ fsm.pendingTransition # NoPending =>
        /\ fsm.pendingTransition.data = fh.issued
        /\ fsm.pendingTransition.state = fh.lastTarget
  /\ fh.applied \cap fh.superseded = {}
  /\ fh.drained \cap fh.superseded = {}
  /\ (~fsm.transitioning /\ fh.issued > 0) => fh.issued \in fh.applied

\* two requests queued behind one fade: the first replaced, the last drained
C1_Witness ==
  /\ ~fsm.transitioning
  /\ fh.superseded # {}
  /\ fh.issued \in fh.drained
  /\ fsm.statusData = fh.issued

\* C2: under a fade that always completes, once requests have been issued the
\* machine reaches a quiescent state whose mode is the target of the last
\* request issued.
C2_Converges == (fh.issued > 0) ~> (Quiescent /\ fsm.state = fh.lastTarget)

\* a queued request was drained into a mode change and the machine is at rest
C2_Witness ==
  /\ Quiescent
  /\ fh.issued \in fh.drained \cap fh.changed
  /\ fsm.state = fh.lastTarget

\* C3: at most one side-effect sequence is in progress; no enter effect and
\* no INACTIVE refresh starts while another enter effect is suspended.
C3_OneEffectAtATime ==
  /\ Cardinality(fh.running) <= 1
  /\ ~fh.overlap
  /\ fh.running # {} => fsm.transitioning
  /\ \A t \in doc.fadeTimers : t.id \in fh.running

\* an enter effect is suspended on the fade and a request is waiting behind it
C3_Witness ==
  /\ fh.running # {}
  /\ doc.fadeTimers # {}
  /\ fsm.pendingTransition # NoPending
  /\ fh.superseded # {}

\* C4: a request that changed the mode ran its enter effect exactly once (and
\* to the end once the machine is at rest), it is the enter effect of the
\* current mode, and a request that did not change the mode, replaced ones
\* included, ran none.
C4_EnterOncePerChange ==
  /\ \A id \in 1..MaxCalls :
        /\ id \in fh.changed => fh.enterRuns[id] = 1
        /\ id \notin fh.changed => fh.enterRuns[id] = 0
        /\ id \in fh.superseded => fh.enterRuns[id] = 0 /\ id \notin fh.changed
  /\ fh.enterDone \cup fh.running = fh.changed
  /\ fh.changed # {} => fh.lastEnter = fsm.state

\* two mode changes done, one request collapsed, one same-mode request applied
C4_Witness ==
  /\ Quiescent
  /\ Cardinality(fh.changed) >= 2
  /\ fh.superseded # {}
  /\ fh.applied \ fh.changed # {}

\* C13: on every transition into ACTIVE the watcher is stopped before the
\* overlay is hidden, resumeOurPausedMedia is called once the hide has
\* completed and never before: while the enter effect is suspended on the
\* fade the watcher is already off and no resume has been called, and the
\* effect never ends without the resume.
C13_ActiveEnterOrder ==
  /\ \A f \in fh.faults : f.mode # ACTIVE
  /\ \A t \in doc.fadeTimers :
        t.enter = ACTIVE =>
          /\ ~media.mediaWatcherActive
          /\ ~fh.resumedThisEnter
          /\ doc.overlay = "hiding"

\* ACTIVE was entered from INACTIVE: the fade ran to its end, then an owned
\* element was played
C13_Witness ==
  /\ Quiescent
  /\ fsm.state = ACTIVE
  /\ fh.lastEnter = ACTIVE
  /\ Cardinality(fh.enterDone) >= 2
  /\ mh.lastPlayed # {}
  /\ doc.overlay = "absent"

C16_MappingRule ==
  [][\A s \in Statuses :
       (OnMessage(s) \/ GetStatusReply(s)) =>
          /\ fh'.issued = fh.issued + 1
          /\ fh'.lastTarget = CASE s.disabled -> DISABLED
                                [] ~s.disabled /\ s.active -> ACTIVE
                                [] ~s.disabled /\ ~s.active -> INACTIVE
    ]_vars

\* an observation with the disabled flag was mapped to DISABLED and applied
\* (the daemon poll never produces that target)
C16_Witness ==
  /\ Quiescent
  /\ fh.lastTarget = DISABLED
  /\ fsm.state = DISABLED
  /\ fh.lastApplied = fh.issued
  /\ fh.issued >= 2

\* C17: a transition() call made while a transition is executing only writes
\* the pending slot: mode, retained payload, timers, watcher, ownership set,
\* elements and overlay are as before, no effect is run or ended, and the
\* call returns while the executing effect is still suspended.
C17_QueuedCallFrame ==
  [][(fsm.transitioning /\ fh'.issued # fh.issued) =>
       /\ fsm'.pendingTransition = [state |-> fh'.lastTarget, data |-> fh'.issued]
       /\ fsm'.state = fsm.state
       /\ fsm'.statusData = fsm.statusData
       /\ fsm'.transitioning
       /\ fsm'.pollTimer = fsm.pollTimer
       /\ fsm'.elapsedTimer = fsm.elapsedTimer
       /\ media' = media
       /\ doc' = doc
       /\ fh'.running = fh.running
       /\ fh.running # {}
       /\ fh'.enterRuns = fh.enterRuns
       /\ fh'.applied = fh.applied
    ]_vars

\* a request sits in the pending slot behind a fade, the retained payload
\* still being that of the executing transition
C17_Witness ==
  /\ fsm.transitioning
  /\ doc.overlay = "hiding"
  /\ fsm.pendingTransition # NoPending
  /\ fsm.pendingTransition.data = fh.issued
  /\ fsm.statusData = fh.lastApplied
  /\ fsm.statusData < fh.issued

\* C18: the retained payload is that of the most recently applied request,
\* and never that of a request that was queued and then replaced.
C18_RetainedPayload ==
  /\ fsm.statusData = fh.lastApplied
  /\ fsm.statusData \notin fh.superseded
  /\ fh.applied # {} => fsm.statusData \in fh.applied

\* three requests in a row behind one fade (INACTIVE to ACTIVE, then two
\* queued): the middle one was replaced, the machine rests in INACTIVE with
\* the payload of the last one
C18_Witness ==
  /\ Quiescent
  /\ fsm.state = INACTIVE
  /\ fh.superseded # {}
  /\ fh.issued \in fh.drained
  /\ fsm.statusData = fh.issued
  /\ fh.issued - 1 \in fh.superseded

\* a world with the mode value blanked wherever an enter effect records it
EraseMode(W) ==
  [W EXCEPT !.fsm.state = ACTIVE,
            !.fh.lastEnter = ACTIVE,
            !.fh.faults = {Fault(ACTIVE, f.what) : f \in @},
            !.doc.fadeTimers = {[id |-> t.id, enter |-> ACTIVE] : t \in @}]

\* C19: from every reachable state, _enterDisabled leaves the watcher, the
\* overlay, the timers, the elements and the ownership set exactly as
\* _enterActive does, both up to the fade and after it, and a whole
\* transition out of INACTIVE into DISABLED differs from one into ACTIVE
\* in the mode value only.
C19_DisabledLikeActive ==
  /\ \A id \in 1..MaxCalls :
        /\ EraseMode(enterDisabledBegin(World, id)) = EraseMode(enterActiveBegin(World, id))
        /\ \A ok \in SUBSET ResumeTargets(World) :
              EraseMode(enterDisabledEnd(World, id, ok)) = EraseMode(enterActiveEnd(World, id, ok))
  /\ (fsm.state = INACTIVE /\ ~fsm.transitioning /\ fh.issued < MaxCalls) =>
        EraseMode(executeTransition(World, DISABLED, fh.issued + 1, {}))
          = EraseMode(executeTransition(World, ACTIVE, fh.issued + 1, {}))

\* DISABLED was entered from INACTIVE: watcher stopped, overlay faded out,
\* then an owned element played
C19_Witness ==
  /\ Quiescent
  /\ fsm.state = DISABLED
  /\ fh.lastEnter = DISABLED
  /\ Cardinality(fh.enterDone) >= 2
  /\ mh.lastPlayed # {}
  /\ doc.overlay = "absent"
  /\ ~media.mediaWatcherActive

\* C12: when updates from several sources race, the mode converges to the last
\* known truth: once every in-flight update has been delivered and every effect
\* has completed, the mode is the one derived from the most recent observation,
\* not from an older observation that was delivered late.
C12_ConvergesToLastTruth ==
  (Quiescent /\ net.polls = 0 /\ fh.issued > 0) => fsm.state = fh.truth

\* C32: a play() that fails, or an enter handler that throws, does not abort
\* the transition: the lock is held only while an enter effect is suspended on
\* the fade, a request is pending only while the lock is held, and once the
\* machine is at rest the mode is the target of the last request.
C32_FailureDoesNotAbort ==
  /\ fsm.transitioning => (doc.fadeTimers # {} /\ fh.running # {})
  /\ fsm.pendingTransition # NoPending => fsm.transitioning
  /\ (Quiescent /\ fh.issued > 0) => fsm.state = fh.lastTarget

\* the request drained from the slot entered INACTIVE and its handler threw in
\* _createOverlay: the watcher runs, there is no overlay, the lock is free
C32_Witness ==
  /\ Quiescent
  /\ fsm.state = INACTIVE
  /\ fh.issued \in fh.drained
  /\ doc.overlay = "absent"
  /\ media.mediaWatcherActive
  /\ ~fsm.pollTimer

C36_NothingOwnedStaysPaused ==
  /\ Fault(ACTIVE, "ownedStillPaused") \notin fh.faults
  /\ Fault(DISABLED, "ownedStillPaused") \notin fh.faults

\* an enter effect of DISABLED ended after the hide, with a request queued
\* behind it, on a page where a play() was blocked: an element is still
\* paused and is no longer owned
C36_Witness ==
  /\ fh.lastEnter = DISABLED
  /\ fh.enterDone # {}
  /\ fh.drained # {}
  /\ \E e \in doc.inDoc : doc.paused[e] /\ e \notin media.pausedByUs /\ e \in mh.everOwned

\* C37: daemon polling is gated behind INACTIVE: a poll result issues a
\* transition request only while the mode is INACTIVE, so a poll response that
\* arrives after the machine has moved to ACTIVE or DISABLED issues no request
\* and leaves the mode as it is.
C37_PollGatedBehindInactive ==
  [][((\E a \in BOOLEAN, late \in BOOLEAN : PollResponse(a, late))
        /\ fsm.state # INACTIVE)
      => (fh'.issued = fh.issued /\ fsm'.state = fsm.state)]_vars

\* C38: the pending slot is non-empty only while a transition is executing:
\* whenever control is back in the event loop, _pendingTransition != null
\* implies _transitioning.
C38_PendingOnlyWhileTransitioning ==
  fsm.pendingTransition # NoPending => fsm.transitioning

\* a request waits in the slot, having replaced an earlier one, while an enter
\* effect is suspended on the fade
C38_Witness ==
  /\ fsm.pendingTransition # NoPending
  /\ fsm.transitioning
  /\ fh.superseded # {}
  /\ doc.fadeTimers # {}

\* --------------------------------------------------- media ledger claims

\* C8: resumeOurPausedMedia never calls play() on an element that was never
\* added to the ownership set.
C8_ResumeOnlyEverOwned == mh.lastPlayed \subseteq mh.everOwned

\* a resume call played an owned element and left alone a paused element of
\* the document that this system never paused
C8_Witness ==
  /\ mh.lastPlayed # {}
  /\ \E e \in doc.inDoc \ mh.everOwned : doc.paused[e] /\ mh.cause[e] = "other"

\* C9 (as claimed): play() is called only on an element whose current paused
\* condition was caused by this system.
C9_OnlyOwnPauseResumed == ~mh.playedForeign

\* C9 (amended): play() is called only on an element that is in the ownership
\* set and paused at the time of the call, whoever caused that pause.
C9_ResumeOnlyOwnedAndPaused ==
  [][mh'.resumeTick # mh.resumeTick =>
       \A e \in mh'.lastPlayed :
          e \in media.pausedByUs /\ doc.paused[e] /\ e \in doc.inDoc]_vars

\* an element this system paused, someone else resumed and paused again, was
\* played by a resume call
C9_Witness == mh.playedForeign /\ mh.lastPlayed # {}

\* C21: an owned, paused element that resumeOurPausedMedia() tries to resume
\* leaves the ownership set in that call whether play() takes effect or not
\* (a rejected promise and a thrown exception both leave the element paused).
C21_RemovedWhateverPlayDoes ==
  [][mh'.resumeTick # mh.resumeTick =>
       /\ mh'.lastPlayed = ResumeTargets(World)
       /\ mh'.lastPlayed \cap media'.pausedByUs = {}]_vars

\* play() failed on an element this system had paused: the element is still
\* paused by this system and no longer in the set
C21_Witness ==
  \E e \in mh.lastPlayed :
    /\ doc.paused[e]
    /\ mh.cause[e] = "us"
    /\ e \notin media.pausedByUs

\* C20: after resumeOurPausedMedia() returns, no element of the document that
\* was in the ownership set and not paused at the time of the call (someone
\* else resumed it) remains in the ownership set, and play() was not called
\* on it.
C20_PlayingOwnedDropped ==
  [][mh'.resumeTick # mh.resumeTick =>
       \A e \in getAllMedia(World) :
          (e \in media.pausedByUs /\ ~doc.paused[e]) =>
             (e \notin media'.pausedByUs /\ e \notin mh'.lastPlayed)]_vars

SameButCall(W) == [W EXCEPT !.mh.lastWatch = "none"]

\* C23: startMediaWatcher() called twice in a row leaves the state and makes
\* the platform calls of a single call (one pauseAllMedia, one observe, one
\* setInterval when the watcher was off, none when it was on), and
\* stopMediaWatcher() called twice in a row equals calling it once.
C23_WatcherIdempotent ==
  LET s1 == startMediaWatcher(World)
      s2 == startMediaWatcher(s1)
      t1 == stopMediaWatcher(World)
      t2 == stopMediaWatcher(t1)
  IN /\ SameButCall(s2) = SameButCall(s1)
     /\ s2.log = IF media.mediaWatcherActive THEN <<>>
                 ELSE <<"pauseAllMedia", "observe", "setInterval">>
     /\ s2.media.mediaWatcherActive /\ s2.media.observing /\ s2.media.fallbackInterval
     /\ SameButCall(t2) = SameButCall(t1)
     /\ t2.log = IF media.mediaWatcherActive THEN <<"disconnect", "clearInterval">>
                 ELSE <<>>
     /\ ~t2.media.mediaWatcherActive /\ ~t2.media.observing /\ ~t2.media.fallbackInterval

\* startMediaWatcher() was called while the watcher was already running, with
\* an element playing that a first call would have paused
C23_Witness ==
  /\ mh.lastWatch = "startAgain"
  /\ media.mediaWatcherActive
  /\ \E e \in doc.inDoc : ~doc.paused[e]

\* C24: stopMediaWatcher() resumes nothing: every element's paused condition
\* and the ownership set are what they were before the call.
C24_StopResumesNothing ==
  LET W == stopMediaWatcher(World)
  IN /\ W.doc = doc
     /\ W.media.pausedByUs = media.pausedByUs

\* the watcher was stopped and an element it paused is still paused and owned
C24_Witness ==
  /\ mh.lastWatch = "stop"
  /\ \E e \in doc.inDoc : doc.paused[e] /\ mh.cause[e] = "us" /\ e \in media.pausedByUs

\* the last watcher call was a start
Watching == mh.lastWatch \in {"start", "startAgain"}

\* C25: a playing element that appears in the document is paused and added to
\* the ownership set by the mutation callback while the watcher is on, and
\* when the watcher is not on (never started, or stopped) neither a mutation
\* callback nor a fallback tick pauses or owns anything.
C25_PauseOnAppearanceWhileWatching ==
  [][/\ \A e \in Els :
          AddElement(e) =>
            IF Watching /\ ~doc.paused[e]
            THEN doc'.paused[e] /\ e \in media'.pausedByUs
            ELSE doc'.paused = doc.paused /\ media'.pausedByUs = media.pausedByUs
     /\ (FallbackTick /\ ~Watching) =>
          (doc'.paused = doc.paused /\ media'.pausedByUs = media.pausedByUs)]_vars

\* after the watcher was stopped an element appeared in the document, playing,
\* and was left playing and unowned
C25_Witness ==
  /\ mh.lastWatch = "stop"
  /\ \E e \in doc.inDoc : ~doc.paused[e] /\ e \notin media.pausedByUs /\ mh.cause[e] = "none"
  /\ \E e \in doc.inDoc : doc.paused[e] /\ e \in media.pausedByUs

\* C26: while the watcher is on, every element of the document that is playing
\* when the fallback tick runs, in the ownership set or not, is paused by it.
C26_FallbackPausesAllPlaying ==
  [][(FallbackTick /\ media.mediaWatcherActive) =>
        \A e \in doc.inDoc : doc'.paused[e]]_vars

\* ------------------------------------------------ service-worker claims

\* the serializer is at rest: no pass in flight, nothing queued, no follow-up due
BroadcastIdle ==
  /\ passes = {}
  /\ ~bg.broadcastInProgress
  /\ ~bg.broadcastQueued
  /\ timers = 0

\* C5: whatever the pattern of overlapping serializedBroadcast() calls, at most
\* one broadcastStatus pass is in progress at any instant, and the
\* broadcastInProgress flag is set exactly while that pass runs.
C5_SingleFlight ==
  /\ Cardinality(passes) <= 1
  /\ bg.broadcastInProgress <=> passes # {}

\* a call overlapped the pass in flight (and was queued) while the pass is
\* between two of its sends
C5_Witness ==
  /\ \E q \in passes : q.pc = "send" /\ q.idx > 1
  /\ bg.broadcastQueued
  /\ bh.reqDuringFirst >= 2

\* C6: provided every pass terminates, every serializedBroadcast() request is
\* eventually followed by the start of a pass at or after the request, and the
\* serializer comes to rest with the last request so reflected.
C6_EventuallyReflected ==
  /\ bh.unreflected ~> ~bh.unreflected
  /\ <>[](BroadcastIdle /\ ~bh.unreflected)

\* a request that was queued behind the first pass has been picked up by the
\* follow-up pass, which is now in flight
C6_Witness ==
  /\ bh.reqDuringFirst >= 1
  /\ ~bh.reqOther
  /\ bh.passCount = 2
  /\ passes # {}
  /\ ~bh.unreflected

\* C7: when k >= 1 requests arrive while the first pass is in flight and none
\* arrives afterwards, then once the serializer is at rest exactly two passes
\* have run, and every message of the second pass carries what the code sends
\* for the latest lastStatus (the status itself, or the disabled notice when
\* the extension is switched off), never an earlier status.
C7_TwoPassesLatestPayload ==
  (BroadcastIdle /\ bh.reqDuringFirst >= 1 /\ ~bh.reqOther)
    => /\ bh.passCount = 2
       /\ bh.passPayloads \subseteq
            {IF bg.settings.enabled THEN bg.lastStatus ELSE DisabledPayload}

\* two requests were coalesced and the follow-up pass delivered the latest status
C7_Witness ==
  /\ BroadcastIdle
  /\ bh.reqDuringFirst = 2
  /\ ~bh.reqOther
  /\ bh.passCount = 2
  /\ bh.passPayloads = {bg.lastStatus}
  /\ bg.lastStatus = 3

\* C10: an updateAllSites enumeration that has been superseded by a newer
\* serializedUpdateAllSites() call sends to no receiver other than the one it
\* was processing when it was superseded, never advances to another receiver,
\* and has returned at its checkpoint once it is done.
C10_StaleStopsAtCheckpoint ==
  \A g \in 1..MaxGen :
    /\ bh.staleSends[g] \subseteq {bh.atSupersede[g]}
    /\ (g < bg.updateGeneration /\ upds[g].pc \notin {"none", "done"})
          => upds[g].idx = bh.atSupersede[g]
    /\ (bh.staleSends[g] # {} /\ upds[g].pc = "done")
          => bh.aborted[g] \/ bh.atSupersede[g] = NumTabs

\* a superseded enumeration delivered to the receiver it was processing, then
\* returned at the checkpoint with receivers left unvisited
C10_Witness ==
  \E g \in 1..MaxGen :
    /\ bh.staleSends[g] # {}
    /\ bh.atSupersede[g] < NumTabs
    /\ bh.aborted[g]
    /\ upds[g].pc = "done"

\* C11: across every sender of the service worker (broadcast passes, settings
\* enumerations, INIT after injection), a tab holding the content script is
\* never sent a payload chosen under older settings after it was sent the
\* other kind of payload chosen under newer settings.
C11_NeverOlderPayload == ~bh.olderSent

\* C27: each serializedUpdateAllSites() call raises the generation by exactly
\* one and its enumeration runs under the new value (after n calls the
\* generation is n, and it never decreases); a token passes the checkpoint
\* exactly when it equals the live generation, so one newer call invalidates
\* every older token at once.
C27_GenerationCounter ==
  [][/\ bg'.updateGeneration >= bg.updateGeneration
     /\ bh'.updCalls = bg'.updateGeneration
     /\ \A st \in Settings :
          SettingsChanged(st) =>
            /\ bg'.updateGeneration = bg.updateGeneration + 1
            /\ upds'[bg'.updateGeneration].pc = "query"
            /\ \A g \in 1..MaxGen :
                 Superseded(BgWorld', g) = (g # bg.updateGeneration + 1)]_vars

\* the last call was made while the enumeration before it was still in flight
C27_Witness ==
  /\ bg.updateGeneration = MaxGen
  /\ bh.updCalls = MaxGen
  /\ upds[MaxGen - 1].pc \notin {"none", "done"}
  /\ Superseded(BgWorld, MaxGen - 1)

\* C28: once a newer serializedUpdateAllSites() call has started, the older
\* enumeration issues no further message: no send is made under a generation
\* that is no longer the live one.
C28_NoSendAfterSupersede == \A g \in 1..MaxGen : bh.staleSends[g] = {}

\* C29: an enumeration (a run of updateAllSites whose tab query returned)
\* whose token is still the live generation when it ends has visited every
\* tab and was not stopped at the checkpoint; only an enumeration that a newer
\* call superseded is ever stopped, so the last call of a burst runs to the end.
C29_CurrentRunsToEnd ==
  \A g \in 1..MaxGen :
    /\ bh.aborted[g] => g < bg.updateGeneration
    /\ (upds[g].pc = "done" /\ g = bg.updateGeneration /\ upds[g].idx # 0)
          => bh.visited[g] = Tabs /\ ~bh.aborted[g]

\* a burst of MaxGen calls: an earlier enumeration was stopped at the
\* checkpoint, the last one visited every tab
C29_Witness ==
  /\ bg.updateGeneration = MaxGen
  /\ upds[MaxGen].pc = "done"
  /\ bh.visited[MaxGen] = Tabs
  /\ \E g \in 1..(MaxGen - 1) : bh.aborted[g] /\ bh.visited[g] # Tabs

\* the tabs after tab i that the loop of a pass (by its branch) or of an
\* enumeration sends to
LaterPassTabs(q) ==
  {t \in Tabs : t > q.idx /\ IF q.pc = "send" THEN urlMatchesEnabledSite(BgWorld, t)
                                              ELSE urlMatchesAnySite(BgWorld, t)}

LaterUpdTabs(g) == {t \in Tabs : t > upds[g].idx /\ urlMatchesAnySite(BgWorld, t)}

LeastOf(S) == CHOOSE t \in S : \A u \in S : t <= u

\* C30: within a fan-out pass (broadcastStatus, or an updateAllSites
\* enumeration that is not superseded) a rejected send to one tab does not end
\* the pass: the pass goes on to the next matching tab, whose payload is sent
\* (after injection where the tab has no content script), and returns only
\* when no matching tab is left.
C30_FailedSendDoesNotAbort ==
  [][/\ \A q \in passes :
          BroadcastSendReturns(q, FALSE) =>
            IF LaterPassTabs(q) = {}
            THEN \A p \in passes' : p.id # q.id
            ELSE \E p \in passes' : /\ p.id = q.id
                                     /\ p.idx = LeastOf(LaterPassTabs(q))
                                     /\ p.pc \in {"inject", "send", "sendDisabled"}
     /\ \A g \in 1..MaxGen :
          (UpdSendReturns(g, FALSE) /\ ~Superseded(BgWorld, g)) =>
            IF LaterUpdTabs(g) = {}
            THEN upds'[g].pc = "done" /\ ~bh'.aborted[g] /\ bh'.visited[g] = Tabs
            ELSE /\ upds'[g].idx = LeastOf(LaterUpdTabs(g))
                 /\ upds'[g].pc \in {"inject", "send", "sendDisabled"}]_vars

\* a send of the pass and a send of the enumeration were rejected, and both
\* went on to send to the last tab
C30_Witness ==
  /\ bh.failed = {"pass", "upd"}
  /\ \E q \in passes : q.idx = NumTabs /\ q.pc \in {"send", "sendDisabled"}
  /\ upds[1].idx = NumTabs
  /\ upds[1].pc \in {"send", "sendDisabled"}
  /\ \A t \in Tabs : tabs[t] = "site"

\* C31: when a pass fails, broadcastInProgress is still reset and a queued
\* request still gets its follow-up pass; the flag never stays set for ever.
C31_FlagClearsOnFailure ==
  /\ [][\A q \in passes :
          BroadcastQueryFails(q) =>
            /\ ~bg'.broadcastInProgress
            /\ bg.broadcastQueued => (~bg'.broadcastQueued /\ timers' = timers + 1)]_vars
  /\ (bh.queryFailed /\ timers > 0) ~> (passes # {})
  /\ bg.broadcastInProgress ~> ~bg.broadcastInProgress

\* the first pass failed with a request queued behind it, and the follow-up
\* pass is in flight
C31_Witness ==
  /\ bh.queryFailed
  /\ bh.reqDuringFirst >= 1
  /\ bh.passCount = 2
  /\ passes # {}
  /\ bg.broadcastInProgress

C34_OnlyEnabledSitesMatch ==
  /\ matcher.result = "true" =>
       /\ matcher.settings.enabled
       /\ \E i \in SiteIds :
            /\ matcher.settings.sites[i]
            /\ \E n \in 1..Len(SitePatterns(i)) :
                 PatternMatches(SitePatterns(i)[n], matcher.url)
  /\ (matcher.result # "none" /\ ~matcher.settings.enabled) =>
       matcher.result = "false"

\* the function was asked, with the global toggle on, about a valid URL that a
\* pattern of a switched-off site matches, and answered false
C34_Witness ==
  /\ matcher.result = "false"
  /\ matcher.settings.enabled
  /\ ValidUrl(matcher.url)
  /\ \E i \in SiteIds :
       /\ ~matcher.settings.sites[i]
       /\ \E n \in 1..Len(SitePatterns(i)) :
            PatternMatches(SitePatterns(i)[n], matcher.url)

\* C39: broadcastQueued is set only while a pass is in flight: whenever control
\* is back in the event loop, broadcastQueued implies broadcastInProgress, with
\* a pass suspended that will pick the queued request up.
C39_QueuedOnlyWhileInProgress ==
  bg.broadcastQueued => (bg.broadcastInProgress /\ passes # {})

\* a request is queued behind the follow-up pass, the second pass to run
C39_Witness ==
  /\ bg.broadcastQueued
  /\ bg.broadcastInProgress
  /\ bh.passCount = 2
  /\ timers = 0

====
